---- MODULE Spec2Model ----
(***************************************************************************)
(* Model of src/backend-code.js: an express service that keeps one JSON    *)
(* document of {size, quantity} items per section (data/stock_<S>.json),   *)
(* one JSON transaction log (data/transactions.json) and a directory of    *)
(* transient uploaded CSV files (uploads/).                                *)
(*                                                                         *)
(* Node runs every callback to completion on one thread and the handlers   *)
(* use only synchronous file calls, so one action is one callback: the     *)
(* whole /stock/in, /stock/out, GET handler, and for /upload the multer    *)
(* middleware, the route callback and the stream's callbacks.  An upload   *)
(* spans several callbacks, so uploads in flight are state (req); a        *)
(* request to another route touches nothing before its one callback runs,  *)
(* and its arrival and its handling are one step of Next.  NextInFlight    *)
(* takes the two steps apart for POST /stock/in: requests wait in req,     *)
(* several at once, for their callback to run.                             *)
(*                                                                         *)
(* Next is the server on a file system that does what it is asked.         *)
(* NextFaults adds what comes from outside: writes that start to fail,     *)
(* documents and uploaded files that are removed, damaged or made          *)
(* unreadable, the process stopping, crashing and starting again.          *)
(*                                                                         *)
(* Nothing but its own callbacks reads the body of a request or the file   *)
(* it uploaded, and neither depends on the server's state, so the model    *)
(* draws a body when the callback that reads it runs, and the rows of a    *)
(* file when its stream is read.                                           *)
(*                                                                         *)
(* Values of a JSON body are a number or absent (undefined); they are      *)
(* tagged records so that NaN and undefined are values of their own.       *)
(* A CSV cell is a sequence of one-character strings.  The timestamp of a  *)
(* log entry (new Date().toISOString()) is left out of the entries.        *)
(***************************************************************************)
EXTENDS Integers, Sequences, FiniteSets, TLC

\* ---------------------------------------------------------------- bounds
\* Upload slots: how many uploads can be in flight at once.
MaxReq == 2
\* No request is drawn that would make the log longer than this, or leave
\* no room in it for one row of every upload in flight.
MaxLog == 2
\* Rows of one uploaded CSV file.
MaxRows == 2
\* Files uploads/ can hold at once (their names are 1..MaxFiles).
MaxFiles == 2

ReqIds == 1..MaxReq

\* ------------------------------------------------------------- JS values
Num(n) == [t |-> "number", v |-> n]
Undefined == [t |-> "undefined", v |-> 0]
NaN == [t |-> "NaN", v |-> 0]

\* !x for a body value: undefined and 0 are falsy (NaN too).
Falsy(x) == x.t # "number" \/ x.v = 0

\* isNaN(x) as used on the result of parseInt.
isNaN(x) == x.t # "number"

\* line 39
sections == {"A", "B", "C"}

\* Sections a request may name: two known ones, an unknown one, and none.
ReqSections == {"A", "B", "Z", ""}

\* Bodies of POST /stock/in and /stock/out: the ones that pass validation
\* with two sections, two sizes and two quantities, and one of them with
\* each field in turn absent, zero, negative or unknown.
ValidBodies == [section : {"A", "B"}, size : {Num(1), Num(2)},
                quantity : {Num(1), Num(2)}]

SampleBody == [section |-> "A", size |-> Num(1), quantity |-> Num(1)]

InvalidBodies ==
  {[SampleBody EXCEPT !.section = x] : x \in {"", "Z"}}
    \cup {[SampleBody EXCEPT !.size = x] : x \in {Undefined, Num(0)}}
    \cup {[SampleBody EXCEPT !.quantity = x] : x \in {Undefined, Num(0), Num(-1)}}

StockBodies == ValidBodies \cup InvalidBodies

\* --------------------------------------------------------------- parseInt
Digits == {"0", "1", "2", "3", "4", "5", "6", "7", "8", "9"}

DigitVal(c) ==
  CASE c = "0" -> 0 [] c = "1" -> 1 [] c = "2" -> 2 [] c = "3" -> 3
    [] c = "4" -> 4 [] c = "5" -> 5 [] c = "6" -> 6 [] c = "7" -> 7
    [] c = "8" -> 8 [] c = "9" -> 9

RECURSIVE SkipSpace(_)
SkipSpace(s) == IF s # <<>> /\ Head(s) = " " THEN SkipSpace(Tail(s)) ELSE s

\* The value of the longest prefix of digits of s, given the value acc of
\* the digits already read.
RECURSIVE DigitsValue(_, _)
DigitsValue(s, acc) ==
  IF s # <<>> /\ Head(s) \in Digits
    THEN DigitsValue(Tail(s), 10 * acc + DigitVal(Head(s)))
    ELSE acc

\* parseInt(string): leading white space is skipped, one sign is read, then
\* the longest run of decimal digits; anything after it is ignored, and NaN
\* results when there is no digit.  (The cells never hold "0x".)
parseInt(cell) ==
  LET s == SkipSpace(cell)
      neg == s # <<>> /\ Head(s) = "-"
      signed == s # <<>> /\ Head(s) \in {"-", "+"}
      d == IF signed THEN Tail(s) ELSE s
  IN IF d = <<>> \/ Head(d) \notin Digits
       THEN NaN
       ELSE Num(IF neg THEN 0 - DigitsValue(d, 0) ELSE DigitsValue(d, 0))

\* Rows an uploaded file may hold, as the cells of its size and quantity
\* columns: three rows with digits to read in both, one whose size and one
\* whose quantity has none.
CsvRows ==
  {[size |-> <<"1">>, quantity |-> <<"1">>],
   [size |-> <<"1">>, quantity |-> <<"-", "1">>],
   [size |-> <<" ", "2">>, quantity |-> <<"1", "x">>],
   [size |-> <<"a">>, quantity |-> <<"1">>],
   [size |-> <<"1">>, quantity |-> <<>>]}

\* The files of n rows.
RECURSIVE FilesOfLen(_)
FilesOfLen(n) ==
  IF n = 0 THEN {<<>>}
  ELSE {Append(f, row) : f \in FilesOfLen(n - 1), row \in CsvRows}

CsvFiles == UNION {FilesOfLen(n) : n \in 0..MaxRows}

\* ------------------------------------------------------------------ state
VARIABLES
  stockFile,   \* section -> the document data/stock_<section>.json
  logFile,     \* the document data/transactions.json
  disk,        \* what fs.writeFileSync does: "ok" (it writes), "denied" (it
               \* throws before it has touched the file) or "full" (it
               \* throws when it has emptied the file)
  uploadsDir,  \* names of the files in uploads/
  req,         \* upload slot -> the upload in flight in it
  resp         \* the response the running callback has sent (NoResp when
               \* none is running); file names the stored file of the
               \* upload it answers

vars == <<stockFile, logFile, disk, uploadsDir, req, resp>>

\* A document: present and parseable ("ok", with its content), absent
\* ("missing"), not parseable ("corrupt") or, with the content it has, not
\* to be read ("unreadable": fs.readFileSync throws).
Doc(content) == [state |-> "ok", content |-> content]

Missing == [state |-> "missing", content |-> <<>>]

Corrupt == [state |-> "corrupt", content |-> <<>>]

Unreadable(doc) == [doc EXCEPT !.state = "unreadable"]

\* The body of a request that has none of the three fields.
NoBody == [section |-> "", size |-> Undefined, quantity |-> Undefined]

\* A request slot.  For an upload pc is "idle", "received" (multer has run,
\* the route callback has not) or "streaming" (between the route callback
\* and the 'end' callback); file is the name of the file multer stored (0:
\* none), section the form field the route callback read.  For a POST
\* /stock/in under NextInFlight pc is "posted" (arrived, its callback has not
\* run) or "answered" (its callback has answered and not returned yet), body
\* is its body and seen the collection its section held when it arrived.
Idle == [pc |-> "idle", section |-> "", file |-> 0, body |-> NoBody, seen |-> <<>>]

\* A response, with the request it answers: op names the route, body holds
\* the fields of the request the route read, results the parsed rows of an
\* upload, file the name of its stored file (0: none).
NoResp ==
  [op |-> "", body |-> NoBody, results |-> <<>>, file |-> 0, status |-> 0,
   error |-> "", stockData |-> <<>>, logData |-> <<>>]

\* lines 28-51: the state after the first start: every document exists and
\* is the empty list, uploads/ is empty.
Init ==
  /\ stockFile = [s \in sections |-> Doc(<<>>)]
  /\ logFile = Doc(<<>>)
  /\ disk = "ok"
  /\ uploadsDir = {}
  /\ req = [r \in ReqIds |-> Idle]
  /\ resp = NoResp

\* ------------------------------------------------------- persistence layer
\* lines 68, 82: the document doc after fs.writeFileSync(path, content) in a
\* try block: the file is opened with flag 'w', which creates or empties it,
\* and then written.
writeFileSync(doc, content) ==
  CASE disk = "ok" -> Doc(content)
    [] disk = "denied" -> doc
    [] disk = "full" -> Corrupt

\* A faulty getStockData that has the content of a document it cannot read.
getStockDataAnyway(section) == stockFile[section].content

\* lines 54-63: the parsed document, or [] when reading or parsing throws.
getStockData(section) ==
  IF stockFile[section].state = "ok" THEN stockFile[section].content ELSE <<>>

\* lines 65-72: the stock documents after saveStockData(section, data); the
\* exception of a failed write is caught.
\* A faulty saveStockData that writes the collection to the document of
\* every section.
saveStockDataEverywhere(section, data) ==
  [s \in sections |-> writeFileSync(stockFile[s], data)]

saveStockData(section, data) ==
  [stockFile EXCEPT ![section] = writeFileSync(@, data)]

\* A faulty logTransaction that writes the new entry without the ones read.
logTransactionAlone(log, transaction) ==
  IF log.state = "ok" THEN writeFileSync(log, <<transaction>>) ELSE log

\* lines 74-86: the log document `log` after logTransaction(transaction):
\* read, parse, push, rewrite; the exception of any step is caught, and
\* nothing is written when the log cannot be read.
logTransaction(log, transaction) ==
  IF log.state = "ok"
    THEN writeFileSync(log, Append(log.content, transaction))
    ELSE log

\* A faulty entry that records every transaction as an IN.
TransactionAsIn(section, size, quantity, type) ==
  [section |-> section, size |-> size, quantity |-> quantity, type |-> "IN"]

Transaction(section, size, quantity, type) ==
  [section |-> section, size |-> size, quantity |-> quantity, type |-> type]

\* ------------------------------------------------------------ stock mutator
\* Array.prototype.findIndex(item => item.size === size), 1-based; 0 stands
\* for -1.
findIndex(stockData, size) ==
  LET hits == {i \in 1..Len(stockData) : stockData[i].size = size}
  IN IF hits = {} THEN 0 ELSE CHOOSE i \in hits : \A j \in hits : i <= j

\* A faulty validation that does not look at the sign of the quantity.
InvalidInputUnsigned(b) ==
  \/ b.section = ""
  \/ Falsy(b.size)
  \/ Falsy(b.quantity)

\* lines 106 and 146: the first validation of /stock/in and /stock/out.
InvalidInput(b) ==
  \/ b.section = ""
  \/ Falsy(b.size)
  \/ Falsy(b.quantity)
  \/ b.quantity.v <= 0

\* A faulty update of /stock/in that sets the quantity of an item it finds.
StockInApplySet(stockData, size, quantity) ==
  LET hits == {i \in 1..Len(stockData) : stockData[i].size = size}
  IN IF hits # {}
       THEN [i \in 1..Len(stockData) |->
               IF i \in hits THEN [size |-> size, quantity |-> quantity]
               ELSE stockData[i]]
       ELSE Append(stockData, [size |-> size, quantity |-> quantity])

\* lines 117-126: the collection after the update of /stock/in.
StockInApply(stockData, size, quantity) ==
  LET itemIndex == findIndex(stockData, size)
  IN IF itemIndex # 0
       THEN [stockData EXCEPT ![itemIndex].quantity = @ + quantity]
       ELSE Append(stockData, [size |-> size, quantity |-> quantity])

\* A faulty check of /stock/out that does not compare the quantities.
StockOutErrorFoundOnly(stockData, size, quantity) ==
  IF \E i \in 1..Len(stockData) : stockData[i].size = size
    THEN ""
    ELSE "Item not found in stock"

\* lines 160-167: the error of /stock/out for this collection, "" when none.
StockOutError(stockData, size, quantity) ==
  LET itemIndex == findIndex(stockData, size)
  IN IF itemIndex = 0 THEN "Item not found in stock"
     ELSE IF stockData[itemIndex].quantity < quantity
       THEN "Not enough stock available"
       ELSE ""

\* A faulty update of /stock/out that drops an item it has emptied.
StockOutApplyDropEmpty(stockData, size, quantity) ==
  SelectSeq([i \in 1..Len(stockData) |->
               IF stockData[i].size = size
                 THEN [size |-> size, quantity |-> stockData[i].quantity - quantity]
                 ELSE stockData[i]],
            LAMBDA item : item.quantity # 0)

\* lines 169-170: the collection after the update of /stock/out.
StockOutApply(stockData, size, quantity) ==
  [stockData EXCEPT ![findIndex(stockData, size)].quantity = @ - quantity]

\* A faulty test of a row that looks at its size only.
SkippedRowBySize(item) == isNaN(item.size)

\* lines 214-216: the rows the forEach callback returns from at once.
SkippedRow(item) == isNaN(item.size) \/ isNaN(item.quantity)

\* A faulty update for a row that pushes a new item whatever the collection
\* holds.
UploadRowApplyPush(stockData, item) ==
  Append(stockData, [size |-> item.size.v, quantity |-> item.quantity.v])

\* A faulty update for a row that adds the row's quantity to the item's.
UploadRowApplyAdd(stockData, item) ==
  LET hits == {i \in 1..Len(stockData) : stockData[i].size = item.size.v}
  IN IF hits # {}
       THEN [i \in 1..Len(stockData) |->
               IF i \in hits
                 THEN [stockData[i] EXCEPT !.quantity = @ + item.quantity.v]
                 ELSE stockData[i]]
       ELSE Append(stockData, [size |-> item.size.v, quantity |-> item.quantity.v])

\* lines 218-226: the collection after one row that is not skipped.
UploadRowApply(stockData, item) ==
  LET itemIndex == findIndex(stockData, item.size.v)
  IN IF itemIndex # 0
       THEN [stockData EXCEPT ![itemIndex].quantity = item.quantity.v]
       ELSE Append(stockData, [size |-> item.size.v, quantity |-> item.quantity.v])

\* lines 213-235: results.forEach over the parsed rows, from the collection
\* and the log document it starts with: the collection in memory and the
\* log document after it.
RECURSIVE UploadForEach(_, _, _, _)
UploadForEach(results, section, stockData, log) ==
  IF results = <<>> THEN [stockData |-> stockData, log |-> log]
  ELSE LET item == Head(results)
       IN IF SkippedRow(item)
            THEN UploadForEach(Tail(results), section, stockData, log)
            ELSE UploadForEach(Tail(results), section,
                   UploadRowApply(stockData, item),
                   logTransaction(log,
                     Transaction(section, item.size.v, item.quantity.v, "UPLOAD")))

\* lines 204-207: the row the 'data' callback pushes.
ParsedRow(data) ==
  [size |-> parseInt(data.size), quantity |-> parseInt(data.quantity)]

\* ---------------------------------------------------------------- requests
\* res.status(400).json({error}) for the request `request`.
Failure(request, status, error) ==
  [request EXCEPT !.status = status, !.error = error]

\* res.json({success: true, stockData}) for the request `request`.
Success(request, stockData) ==
  [request EXCEPT !.status = 200, !.stockData = stockData]

StockRequest(op, b) == [NoResp EXCEPT !.op = op, !.body = b]

UploadRequest(section, file, results) ==
  [NoResp EXCEPT !.op = "upload", !.body.section = section, !.file = file,
                 !.results = results]

\* The uploads in flight.
InFlight == {r \in ReqIds : req[r].pc # "idle"}

\* The entries the log has room for, one being kept for every upload in
\* flight.
LogRoom == MaxLog - Len(logFile.content) - Cardinality(InFlight)

\* No callback is running: the last one has returned.
Returned == resp = NoResp

\* A new request takes the first free slot.
FreeSlot(r) == req[r].pc = "idle" /\ \A q \in 1..(r - 1) : req[q].pc # "idle"

\* A name no file in uploads/ has (line 22 names a file by the time of day).
FreshName == CHOOSE f \in 1..MaxFiles : f \notin uploadsDir

\* lines 17-26, 187: a POST /upload arrives; upload.single('file') stores the
\* file part, if there is one, under a fresh name in uploads/ before the
\* route callback runs.
UploadStore(r) ==
  /\ Returned
  /\ FreeSlot(r)
  /\ LogRoom >= 1
  /\ \E hasFile \in BOOLEAN :
       /\ hasFile => uploadsDir # 1..MaxFiles
       /\ req' = [req EXCEPT ![r] = [Idle EXCEPT !.pc = "received",
                    !.file = IF hasFile THEN FreshName ELSE 0]]
       /\ uploadsDir' = IF hasFile THEN uploadsDir \cup {FreshName} ELSE uploadsDir
  /\ resp' = NoResp
  /\ UNCHANGED <<stockFile, logFile, disk>>

\* lines 91-100, for GET /stock/<section>
GetStockOf(section) ==
  /\ Returned
  /\ LET request == [NoResp EXCEPT !.op = "get", !.body.section = section]
     IN resp' = IF section \notin sections
                  THEN Failure(request, 400, "Invalid section")
                  ELSE Success(request, getStockData(section))
  /\ UNCHANGED <<stockFile, logFile, disk, uploadsDir, req>>

\* A route parameter is never empty.
GetStock == \E section \in ReqSections \ {""} : GetStockOf(section)

\* lines 248-257
GetLogs ==
  /\ Returned
  /\ LET request == [NoResp EXCEPT !.op = "logs"]
     IN resp' = IF logFile.state = "ok"
                  THEN [request EXCEPT !.status = 200, !.logData = logFile.content]
                  ELSE Failure(request, 500, "Failed to read transaction logs")
  /\ UNCHANGED <<stockFile, logFile, disk, uploadsDir, req>>

\* lines 103-140: what the handler of POST /stock/in does to the documents
\* and what it answers, for the body b; current is what line 115 reads.
StockInOn(b, current) ==
  IF InvalidInput(b) THEN
    /\ resp' = Failure(StockRequest("in", b), 400, "Invalid input data")
    /\ UNCHANGED <<stockFile, logFile>>
  ELSE IF b.section \notin sections THEN
    /\ resp' = Failure(StockRequest("in", b), 400, "Invalid section")
    /\ UNCHANGED <<stockFile, logFile>>
  ELSE
    LET stockData == StockInApply(current, b.size.v, b.quantity.v)
    IN /\ stockFile' = saveStockData(b.section, stockData)
       /\ logFile' = logTransaction(logFile,
            Transaction(b.section, b.size.v, b.quantity.v, "IN"))
       /\ resp' = Success(StockRequest("in", b), stockData)

\* line 115, run in the callback itself.
StockInBody(b) == StockInOn(b, getStockData(b.section))

\* A POST /stock/in arrives and is handled.
StockIn ==
  /\ Returned
  /\ LogRoom >= 1
  /\ \E b \in StockBodies : StockInBody(b)
  /\ UNCHANGED <<disk, uploadsDir, req>>

\* lines 143-184: what the handler of POST /stock/out does to the documents
\* and what it answers, for the body b.
StockOutBody(b) ==
  IF InvalidInput(b) THEN
    /\ resp' = Failure(StockRequest("out", b), 400, "Invalid input data")
    /\ UNCHANGED <<stockFile, logFile>>
  ELSE IF b.section \notin sections THEN
    /\ resp' = Failure(StockRequest("out", b), 400, "Invalid section")
    /\ UNCHANGED <<stockFile, logFile>>
  ELSE
    LET old == getStockData(b.section)
        error == StockOutError(old, b.size.v, b.quantity.v)
    IN IF error # "" THEN
         /\ resp' = Failure(StockRequest("out", b), 400, error)
         /\ UNCHANGED <<stockFile, logFile>>
       ELSE
         LET stockData == StockOutApply(old, b.size.v, b.quantity.v)
         IN /\ stockFile' = saveStockData(b.section, stockData)
            /\ logFile' = logTransaction(logFile,
                 Transaction(b.section, b.size.v, b.quantity.v, "OUT"))
            /\ resp' = Success(StockRequest("out", b), stockData)

\* A POST /stock/out arrives and is handled.
StockOut ==
  /\ Returned
  /\ LogRoom >= 1
  /\ \E b \in StockBodies : StockOutBody(b)
  /\ UNCHANGED <<disk, uploadsDir, req>>

\* lines 187-201: the route callback of /upload for the request in slot r
\* with the form field section: it answers 400 and returns, or opens the
\* stored file and returns with the stream's callbacks set.
UploadSection(r, section) ==
  /\ Returned
  /\ req[r].pc = "received"
  /\ IF section = "" \/ section \notin sections THEN
       /\ resp' = Failure(UploadRequest(section, req[r].file, <<>>), 400,
                          "Invalid section")
       /\ req' = [req EXCEPT ![r] = Idle]
     ELSE IF req[r].file = 0 THEN
       /\ resp' = Failure(UploadRequest(section, 0, <<>>), 400, "No file uploaded")
       /\ req' = [req EXCEPT ![r] = Idle]
     ELSE
       /\ req' = [req EXCEPT ![r].pc = "streaming", ![r].section = section]
       /\ resp' = NoResp
  /\ UNCHANGED <<stockFile, logFile, disk, uploadsDir>>

Upload(r) == \E section \in ReqSections : UploadSection(r, section)

\* lines 202-208: the rows the 'data' callbacks have pushed when the file
\* holding `rows` has been read, one callback per row.
RECURSIVE ParsedRows(_)
ParsedRows(rows) ==
  IF rows = <<>> THEN <<>> ELSE <<ParsedRow(Head(rows))>> \o ParsedRows(Tail(rows))

\* What the 'data' callbacks can have pushed when 'end' is emitted.
ParsedFiles == {ParsedRows(rows) : rows \in CsvFiles}

\* The rows of `results` that are not skipped.
Applied(results) == SelectSeq(results, LAMBDA item : ~SkippedRow(item))

\* lines 209-244: the 'end' callback of the request in slot r, with the
\* parsed rows `results`.  The 'data' callbacks before it write only the
\* array `results` of this request, which nothing else reads, so they are
\* part of this step.
UploadEndResults(r, results) ==
  /\ Returned
  /\ req[r].pc = "streaming"
  /\ Len(Applied(results)) <= LogRoom + 1
  /\ LET b == req[r]
         done == UploadForEach(results, b.section, getStockData(b.section), logFile)
     IN /\ logFile' = done.log
        /\ stockFile' = saveStockData(b.section, done.stockData)
        /\ uploadsDir' = uploadsDir \ {b.file}
        /\ resp' = Success(UploadRequest(b.section, b.file, results), done.stockData)
  /\ req' = [req EXCEPT ![r] = Idle]
  /\ UNCHANGED disk

UploadEnd(r) == \E results \in ParsedFiles : UploadEndResults(r, results)

\* The callback that sent resp returns to the event loop; no other callback
\* runs before it has.
Return ==
  /\ ~Returned
  /\ resp' = NoResp
  /\ UNCHANGED <<stockFile, logFile, disk, uploadsDir, req>>

Next ==
  \/ Return
  \/ GetStock
  \/ GetLogs
  \/ StockIn
  \/ StockOut
  \/ \E r \in ReqIds :
       \/ UploadStore(r)
       \/ Upload(r)
       \/ UploadEnd(r)

Spec == Init /\ [][Next]_vars

\* The event loop runs every callback that is due: the one that is running
\* returns, the route callback of a request multer is done with runs, and
\* the stream of an opened file emits 'end'.
Fairness ==
  /\ WF_vars(Return)
  /\ \A r \in ReqIds : SF_vars(Upload(r)) /\ SF_vars(UploadEnd(r))

SpecFair == Spec /\ Fairness

\* ------------------------------------------------------------------ faults
\* The process is not running: it was stopped, or an exception no callback
\* catches has ended it.  No callback runs and no request is in flight.
Down == [NoResp EXCEPT !.op = "down"]

\* The sum of the quantities of a collection.
RECURSIVE Total(_)
Total(coll) == IF coll = <<>> THEN 0 ELSE Head(coll).quantity + Total(Tail(coll))

\* Under NextFaults, where the log may not record what is stocked, no request
\* is drawn that would make the stock documents hold more than MaxQty.
MaxQty == 3

Bounded ==
  Total(stockFile["A"].content) + Total(stockFile["B"].content)
    + Total(stockFile["C"].content) <= MaxQty

\* What is broken: the disk, and the documents that are not there or not
\* readable.
Broken ==
  (IF disk = "ok" THEN 0 ELSE 1)
    + (IF logFile.state = "ok" THEN 0 ELSE 1)
    + Cardinality({section \in sections : stockFile[section].state # "ok"})

\* Faults from outside are drawn while their number, the entries of the log
\* and the uploads in flight stay within MaxLog.
FaultRoom == LogRoom - Broken

\* The disk starts to refuse writes, or fills up.
DiskFails ==
  /\ Returned
  /\ FaultRoom >= 1
  /\ disk = "ok"
  /\ disk' \in {"denied", "full"}
  /\ UNCHANGED <<stockFile, logFile, uploadsDir, req, resp>>

\* A stock document is removed, damaged or made unreadable from outside the
\* process.
LoseStock(section) ==
  /\ Returned
  /\ FaultRoom >= 1
  /\ stockFile[section].state = "ok"
  /\ \E doc \in {Missing, Corrupt, Unreadable(stockFile[section])} :
       stockFile' = [stockFile EXCEPT ![section] = doc]
  /\ UNCHANGED <<logFile, disk, uploadsDir, req, resp>>

\* The log document is removed or damaged from outside the process.
LoseLog ==
  /\ Returned
  /\ FaultRoom >= 1
  /\ logFile.state = "ok"
  /\ logFile' \in {Missing, Corrupt}
  /\ UNCHANGED <<stockFile, disk, uploadsDir, req, resp>>

\* The stored file of an upload in flight is removed from outside the
\* process.
LoseUpload(r) ==
  /\ Returned
  /\ req[r].pc # "idle"
  /\ req[r].file \in uploadsDir
  /\ uploadsDir' = uploadsDir \ {req[r].file}
  /\ UNCHANGED <<stockFile, logFile, disk, req, resp>>

\* The process is stopped between two callbacks, when no upload is in flight.
Stop ==
  /\ Returned
  /\ InFlight = {}
  /\ resp' = Down
  /\ req' = [r \in ReqIds |-> Idle]
  /\ UNCHANGED <<stockFile, logFile, disk, uploadsDir>>

\* lines 200-201: fs.createReadStream of a file that is not there emits
\* 'error' on the stream, which has no listener for it: the exception ends
\* the process, and no request in flight is answered.
UploadStreamError(r) ==
  /\ Returned
  /\ req[r].pc = "streaming"
  /\ req[r].file \notin uploadsDir
  /\ resp' = Down
  /\ req' = [q \in ReqIds |-> Idle]
  /\ UNCHANGED <<stockFile, logFile, disk, uploadsDir>>

\* lines 209-241: the 'end' callback of a file that was removed after the
\* stream had opened it: fs.unlinkSync throws at line 241, after the save and
\* before the answer, and the exception ends the process.
UploadEndUnlinkThrows(r) ==
  /\ Returned
  /\ req[r].pc = "streaming"
  /\ req[r].file \notin uploadsDir
  /\ \E results \in ParsedFiles :
       /\ Len(Applied(results)) <= LogRoom + 1
       /\ LET b == req[r]
              done == UploadForEach(results, b.section, getStockData(b.section),
                                    logFile)
          IN /\ logFile' = done.log
             /\ stockFile' = saveStockData(b.section, done.stockData)
  /\ resp' = Down
  /\ req' = [q \in ReqIds |-> Idle]
  /\ UNCHANGED <<disk, uploadsDir>>

\* The first document, in the order of lines 39-51, that is not there
\* ("" when none is).
FirstMissing ==
  IF stockFile["A"].state = "missing" THEN "A"
  ELSE IF stockFile["B"].state = "missing" THEN "B"
  ELSE IF stockFile["C"].state = "missing" THEN "C"
  ELSE IF logFile.state = "missing" THEN "log"
  ELSE ""

\* The script has run to its last line and the server listens (lines
\* 259-261).
Started == [NoResp EXCEPT !.op = "start"]

\* A faulty start that writes every document as the empty list.
StartAfresh ==
  /\ resp = Down
  /\ stockFile' = [section \in sections |-> writeFileSync(stockFile[section], <<>>)]
  /\ logFile' = writeFileSync(logFile, <<>>)
  /\ resp' = Started
  /\ UNCHANGED <<disk, uploadsDir, req>>

\* lines 28-51, 259-261: the process starts.  Every document that is not
\* there is written as the empty list; the writes are in no try block, so the
\* first that fails ends the process.
Start ==
  /\ resp = Down
  /\ IF FirstMissing = "" \/ disk = "ok" THEN
       /\ stockFile' = [section \in sections |->
            IF stockFile[section].state = "missing" THEN Doc(<<>>)
            ELSE stockFile[section]]
       /\ logFile' = IF logFile.state = "missing" THEN Doc(<<>>) ELSE logFile
       /\ resp' = Started
     ELSE
       /\ stockFile' = IF FirstMissing = "log" THEN stockFile
                       ELSE [stockFile EXCEPT ![FirstMissing] = writeFileSync(@, <<>>)]
       /\ logFile' = IF FirstMissing = "log" THEN writeFileSync(logFile, <<>>)
                     ELSE logFile
       /\ resp' = Down
  /\ UNCHANGED <<disk, uploadsDir, req>>

\* The requests drawn under NextFaults: POST /stock/in and /stock/out of one
\* item of either size in section A, GET /stock/A, and one upload at a time,
\* of a file of at most one row, for section A.
FaultBodies == {b \in ValidBodies : b.section = "A" /\ b.quantity = Num(1)}

Drawn ==
  /\ resp.op \in {"in", "out"} => resp.body \in FaultBodies
  /\ resp.op = "get" => resp.body.section = "A"
  /\ resp.op = "upload" => resp.status = 200 /\ Len(resp.results) <= 1
  /\ \A r \in ReqIds :
       req[r].pc # "idle" => r = 1 /\ req[r].file # 0 /\ req[r].section \in {"", "A"}

\* The callbacks of a running process, for the requests drawn.
ReturnUp == resp # Down /\ Return

GetStockA == GetStock /\ Drawn'

StockInA == StockIn /\ Drawn' /\ Bounded'

StockOutA == StockOut /\ Drawn' /\ Bounded'

UploadStoreA(r) == UploadStore(r) /\ Drawn'

UploadA(r) == Upload(r) /\ Drawn'

\* The 'end' callback when the stored file is there to unlink.
UploadEndA(r) == req[r].file \in uploadsDir /\ UploadEnd(r) /\ Drawn' /\ Bounded'

UploadEndThrowsA(r) == UploadEndUnlinkThrows(r) /\ Bounded'

NextFaults ==
  \/ ReturnUp
  \/ GetStockA
  \/ GetLogs
  \/ StockInA
  \/ StockOutA
  \/ \E r \in ReqIds : \/ UploadStoreA(r)
                       \/ UploadA(r)
                       \/ UploadEndA(r)
                       \/ LoseUpload(r)
                       \/ UploadStreamError(r)
                       \/ UploadEndThrowsA(r)
  \/ DiskFails
  \/ LoseLog
  \/ \E section \in {"A", "B"} : LoseStock(section)
  \/ Stop
  \/ Start

SpecFaults == Init /\ [][NextFaults]_vars

\* The event loop of a running process runs every callback that is due: the
\* one that is running returns, the route callback of a request multer is
\* done with runs, and the stream of a request emits 'error' or 'end'.
FairnessFaults ==
  /\ WF_vars(ReturnUp)
  /\ \A r \in ReqIds :
       /\ SF_vars(UploadA(r))
       /\ SF_vars(UploadEndA(r) \/ UploadStreamError(r) \/ UploadEndThrowsA(r))

SpecFaultsFair == SpecFaults /\ FairnessFaults

\* ------------------------------------------------- POST /stock/in in flight
\* lines 14, 103: a POST /stock/in arrives; express.json() reads its body
\* before the route callback runs, and other callbacks run meanwhile.
StockInArrive(r) ==
  /\ Returned
  /\ FreeSlot(r)
  /\ LogRoom >= 1
  /\ \E b \in StockBodies :
       req' = [req EXCEPT ![r] = [Idle EXCEPT !.pc = "posted", !.body = b,
                 !.seen = IF b.section \in sections
                            THEN getStockData(b.section) ELSE <<>>]]
  /\ resp' = NoResp
  /\ UNCHANGED <<stockFile, logFile, disk, uploadsDir>>

\* A faulty read that takes the collection as it was when the request
\* arrived.
ReadOnArrival(r) == req[r].seen

\* line 115: the collection the callback of the request in slot r reads.
ReadBy(r) == getStockData(req[r].body.section)

\* lines 103-140: the route callback of the request in slot r, from its
\* first line to its last.
StockInHandle(r) ==
  /\ Returned
  /\ req[r].pc = "posted"
  /\ StockInOn(req[r].body, ReadBy(r))
  /\ req' = [req EXCEPT ![r].pc = "answered"]
  /\ UNCHANGED <<disk, uploadsDir>>

\* The callback that answered returns, and its request is gone.
ReturnInFlight ==
  /\ ~Returned
  /\ resp' = NoResp
  /\ req' = [r \in ReqIds |-> IF req[r].pc = "answered" THEN Idle ELSE req[r]]
  /\ UNCHANGED <<stockFile, logFile, disk, uploadsDir>>

NextInFlight ==
  \/ ReturnInFlight
  \/ \E r \in ReqIds : \/ StockInArrive(r)
                       \/ StockInHandle(r)

SpecInFlight == Init /\ [][NextInFlight]_vars

\* ------------------------------------------------------------------ claims
\* The persisted StockCollection of a section.
Persisted(section) == stockFile[section].content

\* The sizes a collection holds, and the quantity it holds for a size (0 when
\* it holds none).
SizesOf(coll) == {coll[i].size : i \in 1..Len(coll)}

QtyOf(coll, size) ==
  IF size \in SizesOf(coll)
    THEN (CHOOSE item \in {coll[i] : i \in 1..Len(coll)} : item.size = size).quantity
    ELSE 0

\* How many items of a collection have this size.
CountOf(coll, size) == Cardinality({i \in 1..Len(coll) : coll[i].size = size})

\* The other items of a collection are where and what they were.
OthersKept(old, new, size) ==
  /\ Len(new) >= Len(old)
  /\ \A i \in 1..Len(old) : old[i].size # size => new[i] = old[i]

\* C1: every StockItem of every persisted StockCollection has quantity >= 0.
C1_QuantityNeverNegative ==
  \A s \in sections : \A i \in 1..Len(Persisted(s)) : Persisted(s)[i].quantity >= 0

\* C2: a persisted StockCollection holds at most one StockItem per size.
C2_OneItemPerSize ==
  \A s \in sections : \A i, j \in 1..Len(Persisted(s)) :
    Persisted(s)[i].size = Persisted(s)[j].size => i = j

\* An upload with two rows of one size has been applied and its section holds
\* one item.
C2_Witness ==
  /\ resp.op = "upload" /\ resp.status = 200
  /\ Len(resp.results) = 2
  /\ ~isNaN(resp.results[1].size) /\ ~isNaN(resp.results[1].quantity)
  /\ ~isNaN(resp.results[2].quantity)
  /\ resp.results[1].size = resp.results[2].size
  /\ Len(Persisted(resp.body.section)) = 1

\* A callback answers a request in this step.
Answers(op) == resp = NoResp /\ resp'.op = op

\* A body of /stock/in or /stock/out that names a known section, a size and
\* a quantity > 0.
WellFormed(b) ==
  /\ b.section \in sections
  /\ b.size.t = "number" /\ b.size.v # 0
  /\ b.quantity.t = "number" /\ b.quantity.v > 0

\* The log entry of a request with body b.
EntryOf(b, type) ==
  [section |-> b.section, size |-> b.size.v, quantity |-> b.quantity.v,
   type |-> type]

\* The rows of an upload whose size and quantity both converted to an
\* integer, and the log entries of such rows.
Converted(item) == item.size.t = "number" /\ item.quantity.t = "number"

ValidRows(results) == SelectSeq(results, Converted)

UploadEntries(section, rows) ==
  [i \in 1..Len(rows) |->
     [section |-> section, size |-> rows[i].size.v,
      quantity |-> rows[i].quantity.v, type |-> "UPLOAD"]]

\* C3: the log only grows at its end: every step keeps the log it starts from
\* as a prefix; a successful StockIn or StockOut appends exactly its one
\* entry, a successful upload exactly one UPLOAD entry per applied row.
C3_LogAppendOnly ==
  [][LET old == logFile.content
         new == logFile'.content
     IN /\ Len(new) >= Len(old)
        /\ SubSeq(new, 1, Len(old)) = old
        /\ (Answers("in") /\ resp'.status = 200)
             => new = Append(old, EntryOf(resp'.body, "IN"))
        /\ (Answers("out") /\ resp'.status = 200)
             => new = Append(old, EntryOf(resp'.body, "OUT"))
        /\ (Answers("upload") /\ resp'.status = 200)
             => new = old \o UploadEntries(resp'.body.section,
                                           ValidRows(resp'.results))
        /\ (resp'.status # 200) => new = old]_vars

\* A successful StockOut has appended the second entry of the log.
C3_Witness ==
  /\ resp.op = "out" /\ resp.status = 200
  /\ Len(logFile.content) = 2
  /\ logFile.content[2] = EntryOf(resp.body, "OUT")

\* C4: a StockOut for a size the section has no item of fails with
\* ItemNotFound, one for more than the item's quantity with
\* InsufficientStock, and neither changes a stock document or the log.
C4_StockOutFailures ==
  [][(Answers("out") /\ WellFormed(resp'.body)) =>
       LET b == resp'.body
           old == Persisted(b.section)
       IN /\ b.size.v \notin SizesOf(old) =>
               /\ resp'.status = 400
               /\ resp'.error = "Item not found in stock"
               /\ UNCHANGED <<stockFile, logFile>>
          /\ (b.size.v \in SizesOf(old) /\ QtyOf(old, b.size.v) < b.quantity.v) =>
               /\ resp'.status = 400
               /\ resp'.error = "Not enough stock available"
               /\ UNCHANGED <<stockFile, logFile>>]_vars

\* A StockOut for more than the item's quantity has failed, and the item is
\* still there with something in it.
C4_Witness ==
  /\ resp.op = "out" /\ resp.error = "Not enough stock available"
  /\ resp.body.section \in sections
  /\ QtyOf(Persisted(resp.body.section), resp.body.size.v) > 0

\* C5: a StockIn(S, size, q) with S known and q > 0 leaves exactly one item
\* of that size, with the quantity it had (0 when absent) plus q, and every
\* other item of S as it was; it answers with that collection.  Two StockIn
\* of one size on an empty collection leave the one item {size, q1 + q2}.
C5_StockInAdditive ==
  [][(Answers("in") /\ WellFormed(resp'.body)) =>
       LET b == resp'.body
           old == Persisted(b.section)
           new == stockFile'[b.section].content
           log == logFile'.content
       IN /\ resp'.status = 200
          /\ resp'.stockData = new
          /\ QtyOf(new, b.size.v) = QtyOf(old, b.size.v) + b.quantity.v
          /\ CountOf(new, b.size.v) = 1
          /\ OthersKept(old, new, b.size.v)
          /\ Len(new) = Len(old) + (IF b.size.v \in SizesOf(old) THEN 0 ELSE 1)
          /\ (/\ Len(log) = 2
              /\ log[1].type = "IN"
              /\ log[1].section = b.section
              /\ log[1].size = b.size.v)
               => new = <<[size |-> b.size.v,
                           quantity |-> log[1].quantity + b.quantity.v]>>]_vars

\* Two StockIn of different quantities for one size have been applied to an
\* empty collection.
C5_Witness ==
  /\ resp.op = "in" /\ resp.status = 200
  /\ Len(logFile.content) = 2
  /\ logFile.content[1] = [EntryOf(resp.body, "IN") EXCEPT !.quantity = 2]
  /\ resp.body.quantity.v = 1
  /\ Persisted(resp.body.section) = <<[size |-> resp.body.size.v, quantity |-> 3]>>

IsLastOfSize(rows, i) == \A j \in (i + 1)..Len(rows) : rows[j].size # rows[i].size

\* C7: after an upload the quantity of every size a valid row names is that
\* of the last such row, whatever it was before, and applying the same rows
\* to the resulting collection once more leaves it as it is.
C7_BulkSetAbsolute ==
  [][(Answers("upload") /\ resp'.status = 200) =>
       LET section == resp'.body.section
           new == stockFile'[section].content
           rows == ValidRows(resp'.results)
       IN /\ \A i \in 1..Len(rows) :
               IsLastOfSize(rows, i) =>
                 /\ rows[i].size.v \in SizesOf(new)
                 /\ QtyOf(new, rows[i].size.v) = rows[i].quantity.v
          /\ UploadForEach(resp'.results, section, new, logFile').stockData = new]_vars

\* An upload has set a quantity that a StockIn had made another one.
C7_Witness ==
  /\ resp.op = "upload" /\ resp.status = 200
  /\ Len(logFile.content) = 2
  /\ logFile.content[1].type = "IN"
  /\ logFile.content[2].type = "UPLOAD"
  /\ logFile.content[1].section = logFile.content[2].section
  /\ logFile.content[1].size = logFile.content[2].size
  /\ logFile.content[1].quantity # logFile.content[2].quantity
  /\ QtyOf(Persisted(resp.body.section), logFile.content[2].size)
       = logFile.content[2].quantity

\* C8: an upload with a row whose size or quantity did not convert to an
\* integer is answered with success and the whole resulting collection; the
\* log gains the entries of the other rows and no more, every item whose
\* size no other row names is as it was and none is created, and the sizes
\* the other rows name are in the collection.
C8_InvalidRowsSkipped ==
  [][(/\ Answers("upload")
      /\ \E i \in 1..Len(resp'.results) : ~Converted(resp'.results[i])) =>
       LET section == resp'.body.section
           old == Persisted(section)
           new == stockFile'[section].content
           rows == ValidRows(resp'.results)
           named == {rows[i].size.v : i \in 1..Len(rows)}
       IN /\ resp'.status = 200
          /\ resp'.stockData = new
          /\ logFile'.content = logFile.content \o UploadEntries(section, rows)
          /\ SizesOf(new) = SizesOf(old) \cup named
          /\ \A size \in SizesOf(old) \ named : QtyOf(new, size) = QtyOf(old, size)
          /\ \A i \in 1..Len(old) : old[i].size \notin named => new[i] = old[i]]_vars

\* An upload of a row that did not convert followed by one that did has been
\* applied: the second row is in the collection and is the only log entry.
C8_Witness ==
  /\ resp.op = "upload" /\ resp.status = 200
  /\ Len(resp.results) = 2
  /\ ~Converted(resp.results[1])
  /\ Converted(resp.results[2])
  /\ Persisted(resp.body.section)
       = <<[size |-> resp.results[2].size.v, quantity |-> resp.results[2].quantity.v]>>
  /\ Len(logFile.content) = 1

\* The sum of the quantities of the IN entries of log for (section, size).
RECURSIVE SumIn(_, _, _)
SumIn(log, section, size) ==
  IF log = <<>> THEN 0
  ELSE SumIn(Tail(log), section, size)
         + (IF /\ Head(log).type = "IN"
               /\ Head(log).section = section
               /\ Head(log).size = size
              THEN Head(log).quantity ELSE 0)

\* The request in slot r waits for its callback, and its section has been
\* saved since it arrived.
Overtaken(r) ==
  /\ Returned
  /\ req[r].pc = "posted"
  /\ WellFormed(req[r].body)
  /\ req[r].seen # Persisted(req[r].body.section)

\* The callback of the request in slot r saves the update of the collection
\* its section held when the request arrived.
StaleSave(r) ==
  /\ StockInHandle(r)
  /\ stockFile' = saveStockData(req[r].body.section,
       StockInApply(req[r].seen, req[r].body.size.v, req[r].body.quantity.v))

\* C9 as stated: of two StockIn requests in flight at once on one section,
\* the one handled second can save the update of the collection both found
\* on arrival, and the update of the first is lost.
C9_LostUpdatePossible ==
  \A r \in ReqIds : Overtaken(r) => ENABLED StaleSave(r)

\* C9: with any number of StockIn requests in flight at once no update is
\* lost: every callback reads, updates, saves and logs without another one
\* running in between, so the quantity of every size of every section is the
\* sum of the quantities of all the StockIn answered with success, and the
\* callback that has just answered has returned the persisted collection.
C9_NoLostUpdate ==
  /\ \A section \in sections :
       \A size \in SizesOf(Persisted(section))
                     \cup {logFile.content[i].size :
                             i \in {j \in 1..Len(logFile.content) :
                                      logFile.content[j].section = section}} :
         /\ CountOf(Persisted(section), size) = 1
         /\ QtyOf(Persisted(section), size) = SumIn(logFile.content, section, size)
  /\ \A r \in ReqIds :
       (req[r].pc = "answered" /\ resp.status = 200)
         => resp.stockData = Persisted(req[r].body.section)

\* Two StockIn of one section and size were in flight at once (the second
\* arrived when the collection was still empty) and both have been answered.
C9_Witness ==
  \E r \in ReqIds :
    /\ req[r].pc = "answered" /\ resp.status = 200
    /\ req[r].seen = <<>>
    /\ Len(logFile.content) = 2
    /\ logFile.content[1].section = req[r].body.section
    /\ logFile.content[1].size = req[r].body.size.v
    /\ Persisted(req[r].body.section)
         = <<[size |-> req[r].body.size.v,
              quantity |-> logFile.content[1].quantity + req[r].body.quantity.v]>>

\* C10: a file an /upload request has stored in uploads/ is eventually
\* removed from it, whatever the request is answered.
C10_UploadFileRemoved ==
  \A f \in 1..MaxFiles : (f \in uploadsDir) ~> (f \notin uploadsDir)

\* The collection a request that has passed validation hands to
\* saveStockData, for the request answered in this step: 'end' is the one
\* callback of an upload that answers with success.
Validated ==
  \/ Answers("in") /\ WellFormed(resp'.body)
  \/ /\ Answers("out") /\ WellFormed(resp'.body)
     /\ StockOutError(getStockData(resp'.body.section), resp'.body.size.v,
                      resp'.body.quantity.v) = ""
  \/ Answers("upload") /\ resp'.status = 200

InMemory ==
  LET b == resp'.body
      current == getStockData(b.section)
  IN CASE resp'.op = "in" -> StockInApply(current, b.size.v, b.quantity.v)
       [] resp'.op = "out" -> StockOutApply(current, b.size.v, b.quantity.v)
       [] resp'.op = "upload" ->
            UploadForEach(resp'.results, b.section, current, logFile).stockData

\* C11: when the save of a StockIn, StockOut or upload that passed validation
\* fails, the request is answered with success and the updated collection,
\* and the persisted collection of the section is what it was before the
\* request.
C11_BestEffortSave ==
  [][(Validated /\ disk # "ok") =>
       /\ resp'.status = 200
       /\ resp'.stockData = InMemory
       /\ stockFile' = stockFile]_vars

\* C12: a StockIn or StockOut whose section, size or quantity is missing,
\* whose quantity is not positive or whose section is not known is answered
\* with a failure and changes no stock document and not the log; so is a
\* GetStock of an unknown section, with "Invalid section".
C12_RejectionsChangeNothing ==
  [][/\ ((Answers("in") \/ Answers("out")) /\ ~WellFormed(resp'.body)) =>
          /\ resp'.status = 400
          /\ resp'.error \in {"Invalid input data", "Invalid section"}
          /\ UNCHANGED <<stockFile, logFile>>
     /\ (Answers("get") /\ resp'.body.section \notin sections) =>
          /\ resp'.status = 400
          /\ resp'.error = "Invalid section"
          /\ UNCHANGED <<stockFile, logFile>>]_vars

\* A StockOut of a negative quantity of an item in stock has been rejected.
C12_Witness ==
  /\ resp.op = "out" /\ resp.status = 400
  /\ resp.body.quantity = Num(-1)
  /\ QtyOf(Persisted(resp.body.section), resp.body.size.v) > 0

\* The upload in slot r has just been answered.
Answered(r) == req[r].pc = "idle" /\ resp.op = "upload" /\ resp.status # 0

\* C13: every request is answered.  The handlers of GetStock, StockIn,
\* StockOut and GetLog answer in the callback that receives the request; an
\* upload in flight is answered eventually, also when its stored file cannot
\* be read or a write fails.
C13_EveryRequestAnswered ==
  \A r \in ReqIds : (req[r].pc # "idle") ~> Answered(r)

\* C14: no StockIn, StockOut or upload takes a size out of the persisted
\* collection of a section.
C14_SizesNeverShrink ==
  [][(Answers("in") \/ Answers("out") \/ Answers("upload")) =>
       \A section \in sections :
         SizesOf(Persisted(section)) \subseteq SizesOf(stockFile'[section].content)]_vars

\* C15: when the document of a section is not there or cannot be read or
\* parsed, GetStock answers with success and the empty collection, StockOut
\* fails with "Item not found in stock", and neither writes a stock document.
C15_UnreadableIsEmpty ==
  [][/\ (/\ Answers("get")
         /\ resp'.body.section \in sections
         /\ stockFile[resp'.body.section].state # "ok") =>
          /\ resp'.status = 200
          /\ resp'.stockData = <<>>
          /\ UNCHANGED stockFile
     /\ (/\ Answers("out")
         /\ WellFormed(resp'.body)
         /\ stockFile[resp'.body.section].state # "ok") =>
          /\ resp'.status = 400
          /\ resp'.error = "Item not found in stock"
          /\ UNCHANGED <<stockFile, logFile>>]_vars

\* A StockOut of a size the section's document holds has failed with
\* "Item not found in stock" because the document cannot be read, and the
\* document still holds the size.
C15_Witness ==
  /\ resp.op = "out" /\ resp.error = "Item not found in stock"
  /\ stockFile[resp.body.section].state = "unreadable"
  /\ resp.body.size.v \in SizesOf(Persisted(resp.body.section))

\* C16: a start of the process changes no document that exists, whatever it
\* holds, and a start that succeeds leaves every document that did not exist
\* as the empty list.
C16_StartKeepsDocuments ==
  [][resp = Down =>
       /\ \A section \in sections :
            /\ stockFile[section].state # "missing"
                 => stockFile'[section] = stockFile[section]
            /\ (stockFile[section].state = "missing" /\ resp' = Started)
                 => stockFile'[section] = Doc(<<>>)
       /\ logFile.state # "missing" => logFile' = logFile
       /\ (logFile.state = "missing" /\ resp' = Started) => logFile' = Doc(<<>>)]_vars

\* The process has started with the stock of section A as it was and a new,
\* empty log: writes have never failed, so only a start can have made a log
\* that does not record the StockIn.
C16_Witness ==
  /\ resp = Started
  /\ disk = "ok"
  /\ stockFile["A"].state = "ok" /\ Persisted("A") # <<>>
  /\ logFile = Doc(<<>>)

\* C17: the handler of a StockIn, a StockOut or an upload for a section
\* leaves the document of every other section as it was, the handlers of
\* GetStock and GetLog leave every document as it was, and no other step
\* changes a document of the stock.
C17_SectionsIsolated ==
  [][/\ \A section \in sections :
          stockFile'[section] # stockFile[section] =>
            /\ Answers("in") \/ Answers("out") \/ Answers("upload")
            /\ resp'.body.section = section
     /\ (Answers("get") \/ Answers("logs")) => UNCHANGED <<stockFile, logFile, uploadsDir>>]_vars

\* A StockIn has changed the stock of its section while another section had
\* stock of its own.
C17_Witness ==
  /\ resp.op = "in" /\ resp.status = 200
  /\ Persisted(resp.body.section) = resp.stockData
  /\ \E other \in sections \ {resp.body.section} :
       /\ Persisted(other) # <<>>
       /\ Persisted(other) # resp.stockData

\* The quantity that the entries of a log for a section and a size give when
\* replayed in order from acc: IN adds, OUT subtracts, UPLOAD sets.
RECURSIVE Replay(_, _, _, _)
Replay(log, section, size, acc) ==
  IF log = <<>> THEN acc
  ELSE LET entry == Head(log)
           next == IF entry.section # section \/ entry.size # size THEN acc
                   ELSE CASE entry.type = "IN" -> acc + entry.quantity
                          [] entry.type = "OUT" -> acc - entry.quantity
                          [] entry.type = "UPLOAD" -> entry.quantity
       IN Replay(Tail(log), section, size, next)

\* The sizes the log has an entry for in a section.
LoggedSizes(log, section) ==
  {log[i].size : i \in {j \in 1..Len(log) : log[j].section = section}}

\* C18: when no callback runs and no upload is in flight, the quantity a
\* section holds for a size is the replay of the log's entries for them
\* from 0, and the sizes it holds are the ones the log has an entry for.
C18_StockAgreesWithLog ==
  (Returned /\ InFlight = {}) =>
    \A section \in sections :
      /\ SizesOf(Persisted(section)) = LoggedSizes(logFile.content, section)
      /\ \A size \in SizesOf(Persisted(section)) \cup LoggedSizes(logFile.content, section) :
           /\ CountOf(Persisted(section), size) <= 1
           /\ QtyOf(Persisted(section), size) = Replay(logFile.content, section, size, 0)

\* No request is in progress and the log holds two entries of different
\* types for one section and size, the second one not an IN.
C18_Witness ==
  /\ Returned /\ InFlight = {}
  /\ Len(logFile.content) = 2
  /\ logFile.content[1].section = logFile.content[2].section
  /\ logFile.content[1].size = logFile.content[2].size
  /\ logFile.content[1].type # logFile.content[2].type
  /\ logFile.content[2].type # "IN"
  /\ QtyOf(Persisted(logFile.content[1].section), logFile.content[1].size)
       # logFile.content[1].quantity + logFile.content[2].quantity

====
